---- MODULE Spec2Model ----
(***************************************************************************)
(* passport-windowsauth: one LdapValidator.validate attempt               *)
(* (lib/LdapValidator.js) and the search entry decoder                     *)
(* (lib/decodeSearchEntry.js).                                             *)
(*                                                                         *)
(* The closure of one validate call (notSent, userProfile,                 *)
(* isAuthenticated, client, entries, notCbSent), the position of           *)
(* async.series, the directory operations in flight and what the caller    *)
(* has observed are the fields of the record st.  Every handler of the     *)
(* source is an operator from st to st, so that the synchronous call       *)
(* chains of the source (a step's callback starting the next step, the     *)
(* last one calling _callback) are compositions of these operators.        *)
(***************************************************************************)
EXTENDS Integers, Sequences, FiniteSets, TLC

VARIABLES options, username, password, st

vars == <<options, username, password, st>>

\* ------------------------------------------------------------------ bounds
\* entries one search result stream delivers
MaxEntries == 2
\* 'error' events the connection emits during one attempt
MaxConnErrors == 1
\* 'error' / 'end' notifications one search result stream delivers
MaxStreamNotes == 2

\* ------------------------------------------------------------- JS values
Str(v) == [type |-> "string", val |-> v]
Undefined == [type |-> "undefined", val |-> ""]
Num == [type |-> "number", val |-> "7"]

\* err values: NoErr is the undefined / null err of a node callback
Err(k, e) == [kind |-> k, errno |-> e]
NoErr == Err("none", "none")

\* values of a decoded profile's keys (decodeSearchEntry.js:34-42)
Val(t, v) == [t |-> t, v |-> v]
NoVal == Val("undefined", <<>>)

\* the null userProfile
Null == [null |-> TRUE]

\* --------------------------------------------------- decodeSearchEntry.js
HexDigits == <<"0", "1", "2", "3", "4", "5", "6", "7", "8", "9", "a", "b", "c", "d", "e", "f">>

\* Number.prototype.toString(16) of a byte
toString16(b) == IF b < 16 THEN HexDigits[b + 1] ELSE HexDigits[(b \div 16) + 1] \o HexDigits[(b % 16) + 1]

Ph(i) == [ph |-> TRUE, i |-> i, s |-> ""]
Lit(s) == [ph |-> FALSE, i |-> 0, s |-> s]

\* a format string that keeps the bytes in their order
GuidFormatInOrder == <<Ph(0), Ph(1), Ph(2), Ph(3), Lit("-"), Ph(4), Ph(5), Lit("-"), Ph(6), Ph(7), Lit("-"), Ph(8), Ph(9), Lit("-"), Ph(10), Ph(11), Ph(12), Ph(13), Ph(14), Ph(15)>>

\* the format string of formatGuid, as its placeholders {i} and literal text
GuidFormat == <<Ph(3), Ph(2), Ph(1), Ph(0), Lit("-"), Ph(5), Ph(4), Lit("-"), Ph(7), Ph(6), Lit("-"), Ph(8), Ph(9), Lit("-"), Ph(10), Ph(11), Ph(12), Ph(13), Ph(14), Ph(15)>>

\* format.replace(/\{i\}/g, text): every placeholder {i} becomes text
replacePlaceholder(format, i, text) == [k \in 1..Len(format) |-> IF format[k].ph /\ format[k].i = i THEN Lit(text) ELSE format[k]]

RECURSIVE formatGuidLoop(_, _, _)
formatGuidLoop(format, data, i) ==
  IF i >= Len(data) THEN format
  ELSE LET dataStr == toString16(data[i + 1])
       IN formatGuidLoop(replacePlaceholder(format, i, IF data[i + 1] >= 16 THEN dataStr ELSE "0" \o dataStr), data, i + 1)

\* decimal rendering of a placeholder index left in the format
Decimal(i) == IF i < 10 THEN HexDigits[i + 1] ELSE "1" \o HexDigits[i - 10 + 1]

RECURSIVE Render(_)
Render(format) ==
  IF format = <<>> THEN ""
  ELSE (IF Head(format).ph THEN "{" \o Decimal(Head(format).i) \o "}" ELSE Head(format).s) \o Render(Tail(format))

\* formatGuid(data): data is a byte sequence
formatGuid(data) == Render(formatGuidLoop(GuidFormat, data, 0))

\* entry.dn.toString(): the RDNs of the DN joined by ", "
RECURSIVE dnToString(_)
dnToString(dn) ==
  IF dn = <<>> THEN ""
  ELSE IF Len(dn) = 1 THEN dn[1]
  ELSE dn[1] \o ", " \o dnToString(Tail(dn))

\* the switch on a.type: which list the attribute contributes
\* ("throw": formatGuid(undefined) reads data.length of undefined)
attributeItem(a) ==
  CASE a.type = "thumbnailPhoto" -> Val("buffers", a.buffers)
    [] a.type = "objectGUID" -> IF a.buffers = <<>> THEN Val("throw", <<>>) ELSE Val("string", <<formatGuid(a.buffers[1])>>)
    [] OTHER -> Val("strings", a.vals)

\* if (item && item.length) { length > 1 ? item.slice() : item[0] } else []
collapse(item) ==
  CASE item.t = "string" ->
         \* a string has the length of its text; slice() and [0] of a
         \* one-character string are the string itself
         IF Len(item.v[1]) = 0 THEN Val("empty", <<>>) ELSE item
    [] item.t = "strings" ->
         IF Len(item.v) = 0 THEN Val("empty", <<>>)
         ELSE IF Len(item.v) > 1 THEN item
         ELSE Val("string", <<item.v[1]>>)
    [] item.t = "buffers" ->
         IF Len(item.v) = 0 THEN Val("empty", <<>>)
         ELSE IF Len(item.v) > 1 THEN item
         ELSE Val("buffer", <<item.v[1]>>)
    [] OTHER -> item

\* the thrown TypeError of a decode
Thrown == [thrown |-> TRUE]

\* entry.attributes.forEach: obj[a.type] = ... for the attributes from k on
RECURSIVE decodeAttributes(_, _, _)
decodeAttributes(obj, attributes, k) ==
  IF k > Len(attributes) THEN obj
  ELSE LET a == attributes[k]
           item == attributeItem(a)
       IN IF item.t = "throw" THEN Thrown
          ELSE decodeAttributes((a.type :> collapse(item)) @@ obj, attributes, k + 1)

\* entry.controls.forEach: obj.controls.push(element.json)
decodeControls(obj, controls) ==
  [obj EXCEPT !["controls"] = Val("json", [k \in 1..Len(controls) |-> controls[k].json])]

\* module.exports = function (entry)
decodeSearchEntry(entry) ==
  LET obj0 == ("dn" :> Val("string", <<dnToString(entry.dn)>>)) @@ ("controls" :> Val("json", <<>>))
      obj1 == decodeAttributes(obj0, entry.attributes, 1)
  IN IF obj1 = Thrown THEN Thrown ELSE decodeControls(obj1, entry.controls)

\* ------------------------------------------------------- LdapValidator.js
\* the trace of what the attempt did and was told, in order
Ev(ev, op, arg, cred, err, entry) == [ev |-> ev, op |-> op, arg |-> arg, cred |-> cred, err |-> err, entry |-> entry]
NoEntry == [dn |-> <<>>, attributes |-> <<>>, controls |-> <<>>]
Log(s, e) == [s EXCEPT !.trace = Append(@, e)]
Issued(op, arg, cred) == Ev("issue", op, arg, cred, NoErr, NoEntry)
Told(ev, op, err) == Ev(ev, op, NoVal, "", err, NoEntry)

\* JS truthiness of a profile value: only the empty string is falsy here
Truthy(v) == ~(v.t = "string" /\ v.v = <<"">>)

\* the caller's callback(err, profile)
callback(s, err, profile) == [s EXCEPT !.calls = Append(@, [err |-> err, profile |-> profile])]

\* client.destroy()
destroy(s) == Log([s EXCEPT !.destroyCalls = @ + 1], Told("destroy", "client", NoErr))

\* _callback with no latch: every invocation reaches the caller
_callbackNoLatch(s, err) ==
  IF ~s.clientBound THEN [s EXCEPT !.phase = "threw"]
  ELSE callback([destroy(s) EXCEPT !.notSent = FALSE], err, IF s.isAuthenticated THEN s.userProfile ELSE Null)

\* _callback handing out the matched profile whether or not it was verified
_callbackAnyProfile(s, err) ==
  IF ~s.clientBound THEN [s EXCEPT !.phase = "threw"]
  ELSE LET s1 == destroy(s)
       IN IF s1.notSent THEN callback([s1 EXCEPT !.notSent = FALSE], err, s1.userProfile) ELSE s1

\* function _callback (err): reading client before `let client` has run
\* throws a ReferenceError, which leaves validate at once
_callback(s, err) ==
  IF ~s.clientBound THEN [s EXCEPT !.phase = "threw"]
  ELSE LET s1 == destroy(s)
       IN IF s1.notSent
          THEN callback([s1 EXCEPT !.notSent = FALSE], err, IF s1.isAuthenticated THEN s1.userProfile ELSE Null)
          ELSE s1

\* function bind (cb): client.bind(bindDN, bindCredentials, ...)
bind(s) ==
  Log([s EXCEPT !.task = "bind", !.inflight = @ \cup {"bind"}],
      Issued("bind", Val("string", <<options.bindDN>>), options.bindCredentials))

\* a search step that reports to the series without waiting for the result
searchEager(s) ==
  LET s1 == Log([s EXCEPT !.task = "search", !.entries = <<>>, !.notCbSent = FALSE, !.inflight = @ \cup {"search"}],
                Issued("search", Val("string", <<username.val>>), ""))
  IN Log([s1 EXCEPT !.task = "unbind", !.inflight = @ \cup {"unbind"}], Issued("unbind", NoVal, ""))

\* function search (cb): client.search(base, {scope, filter}, ...)
search(s) ==
  Log([s EXCEPT !.task = "search", !.entries = <<>>, !.notCbSent = TRUE, !.inflight = @ \cup {"search"}],
      Issued("search", Val("string", <<username.val>>), ""))

\* function unbind (cb): client.unbind(...)
unbind(s) ==
  Log([s EXCEPT !.task = "unbind", !.inflight = @ \cup {"unbind"}], Issued("unbind", NoVal, ""))

\* the end of async.series: the final callback is _callback
seriesEnd(s, err) == _callback([s EXCEPT !.task = "done"], err)

\* function validate (cb), up to client.bind(userProfile.dn, password, ...)
validate(s) ==
  LET s1 == [s EXCEPT !.task = "validate"]
  IN IF s1.userProfile = Null \/ ~Truthy(s1.userProfile["dn"])
     THEN seriesEnd(s1, NoErr)
     ELSE Log([s1 EXCEPT !.inflight = @ \cup {"userBind"}], Issued("userBind", s1.userProfile["dn"], password.val))

\* async.series continuing past a failed step
seriesCbIgnoreErr(s, err) ==
  CASE s.task = "bind" -> search(s)
    [] s.task = "search" -> unbind(s)
    [] s.task = "unbind" -> validate(s)
    [] s.task = "validate" -> seriesEnd(s, NoErr)
    [] OTHER -> s

\* async.series: the callback handed to the running step. An error ends
\* the series with it, otherwise the next step starts at once.
seriesCb(s, err) ==
  IF err # NoErr THEN seriesEnd(s, err)
  ELSE CASE s.task = "bind" -> search(s)
         [] s.task = "search" -> unbind(s)
         [] s.task = "unbind" -> validate(s)
         [] s.task = "validate" -> seriesEnd(s, NoErr)
         [] OTHER -> s

\* search's _cb without its notCbSent test
_cbNoGuard(s, err) == seriesCb([s EXCEPT !.notCbSent = FALSE], err)

\* search's _cb (err): at most one report of the search step
_cb(s, err) == IF s.notCbSent THEN seriesCb([s EXCEPT !.notCbSent = FALSE], err) ELSE s

\* the callback of the service bind
bindCb(s, err) == seriesCb(s, err)

\* the callback of client.search: an error, or the result stream res
searchCb(s, err) == IF err # NoErr THEN _cb(s, err) ELSE [s EXCEPT !.streamOpen = TRUE]

\* res.on('searchEntry')
onSearchEntry(s, entry) == [s EXCEPT !.entries = Append(@, entry)]

\* res.on('error')
onError(s, e) == _cb(s, e)

\* res.on('end') decoding the last entry instead of the first
onEndLast(s) ==
  IF Len(s.entries) > 0
  THEN LET p == decodeSearchEntry(s.entries[Len(s.entries)])
       IN IF p = Thrown THEN [s EXCEPT !.phase = "crashed"] ELSE _cb([s EXCEPT !.userProfile = p], NoErr)
  ELSE _cb(s, NoErr)

\* res.on('end'): a throwing decode is an uncaught exception of the handler
onEnd(s) ==
  IF Len(s.entries) > 0
  THEN LET p == decodeSearchEntry(s.entries[1])
       IN IF p = Thrown THEN [s EXCEPT !.phase = "crashed"] ELSE _cb([s EXCEPT !.userProfile = p], NoErr)
  ELSE _cb(s, NoErr)

\* the callback of client.unbind
unbindCb(s, err) == seriesCb(s, err)

\* the callback of the verification bind that trusts a failed bind
userBindCbTrusting(s, err) == seriesCb([s EXCEPT !.isAuthenticated = TRUE], NoErr)

\* the callback of the verification bind that passes its error on
userBindCbPassErr(s, err) ==
  IF err # NoErr THEN seriesCb(s, err) ELSE seriesCb([s EXCEPT !.isAuthenticated = TRUE], NoErr)

\* the callback of client.bind(userProfile.dn, password, ...)
userBindCb(s, err) ==
  IF err # NoErr THEN seriesCb(s, NoErr) ELSE seriesCb([s EXCEPT !.isAuthenticated = TRUE], NoErr)

\* client.on('error') that suppresses every ECONNRESET
onClientErrorAnyReset(s, err) == IF err.errno = "ECONNRESET" THEN s ELSE _callback(s, err)

\* client.on('error', function (err) ...)
onClientError(s, err) ==
  IF err.errno = "ECONNRESET" /\ options.reconnect THEN s ELSE _callback(s, err)

\* typeof x !== 'string' || !x.length
Missing(x) == x.type # "string" \/ Len(x.val) = 0

\* LdapValidator.prototype.validate, to its return
validateCall(s) ==
  IF Missing(username) THEN LET s1 == _callback(s, NoErr) IN IF s1.phase = "threw" THEN s1 ELSE [s1 EXCEPT !.phase = "called"]
  ELSE IF Missing(password) THEN LET s1 == _callback(s, NoErr) IN IF s1.phase = "threw" THEN s1 ELSE [s1 EXCEPT !.phase = "called"]
  ELSE bind([s EXCEPT !.phase = "called", !.clientBound = TRUE])

\* ------------------------------------------------------------ the inputs
\* what a caller may pass as username and as password
Usernames == {Str("alice"), Str(""), Undefined, Num}
Passwords == {Str("secret"), Str(""), Undefined}

\* the options of the constructor that the attempt reads
Options == {[bindDN |-> "CN=svc", bindCredentials |-> "svcpw", reconnect |-> r] : r \in BOOLEAN}

\* raw entries a directory may return
Attr(type, vals, buffers) == [type |-> type, vals |-> vals, buffers |-> buffers]
EntryAlice == [dn |-> <<"CN=Alice", "DC=corp">>, attributes |-> <<Attr("cn", <<"Alice">>, <<<<65>>>>), Attr("objectGUID", <<"g">>, <<<<1, 2, 3, 4, 5, 6, 7, 8, 9, 10, 11, 12, 13, 14, 15, 16>>>>)>>, controls |-> <<>>]
EntryBob == [dn |-> <<"CN=Bob">>, attributes |-> <<Attr("mail", <<"b@x", "bob@x">>, <<<<98>>, <<98, 111>>>>), Attr("sn", <<>>, <<>>)>>, controls |-> <<[json |-> "ctl1"], [json |-> "ctl2"]>>]
EntryRoot == [dn |-> <<>>, attributes |-> <<>>, controls |-> <<>>]
EntryNoGuid == [dn |-> <<"CN=Carol">>, attributes |-> <<Attr("objectGUID", <<>>, <<>>)>>, controls |-> <<>>]
SearchEntries == {EntryAlice, EntryBob, EntryRoot, EntryNoGuid}

\* the errors the directory client reports
ConnErrors == {Err("conn", "ECONNRESET"), Err("conn", "ETIMEDOUT")}
OpResults(op) == {NoErr, Err(op, "EFAIL")}

\* --------------------------------------------------------------- the state
Init ==
  /\ options \in Options
  /\ username \in Usernames
  /\ password \in Passwords
  /\ st = [phase |-> "idle", clientBound |-> FALSE, destroyCalls |-> 0,
           notSent |-> TRUE, userProfile |-> Null, isAuthenticated |-> FALSE,
           entries |-> <<>>, notCbSent |-> TRUE, task |-> "none",
           inflight |-> {}, streamOpen |-> FALSE, streamNotes |-> 0, connErrors |-> 0,
           calls |-> <<>>, trace |-> <<>>]

\* the attempt is running: validate has returned and the process is alive
Active == st.phase = "called" /\ st.clientBound

\* the caller calls validate(username, password, callback)
Validate ==
  /\ st.phase = "idle"
  /\ st' = validateCall(Log(st, Told("call", "validate", NoErr)))
  /\ UNCHANGED <<options, username, password>>

\* the connection emits 'error'
ConnError ==
  /\ Active
  /\ st.connErrors < MaxConnErrors
  /\ \E e \in ConnErrors :
       st' = onClientError(Log([st EXCEPT !.connErrors = @ + 1], Told("connError", "client", e)), e)
  /\ UNCHANGED <<options, username, password>>

\* the service bind reports
BindDone ==
  /\ Active
  /\ "bind" \in st.inflight
  /\ \E err \in OpResults("bind") :
       st' = bindCb(Log([st EXCEPT !.inflight = @ \ {"bind"}], Told("done", "bind", err)), err)
  /\ UNCHANGED <<options, username, password>>

\* client.search reports: an error, or the result stream
SearchDone ==
  /\ Active
  /\ "search" \in st.inflight
  /\ \E err \in OpResults("search") :
       st' = searchCb(Log([st EXCEPT !.inflight = @ \ {"search"}], Told("done", "search", err)), err)
  /\ UNCHANGED <<options, username, password>>

\* the result stream delivers an entry
StreamEntry ==
  /\ Active
  /\ st.streamOpen
  /\ st.streamNotes = 0
  /\ Len(st.entries) < MaxEntries
  /\ \E entry \in SearchEntries :
       st' = onSearchEntry(Log(st, Ev("searchEntry", "stream", NoVal, "", NoErr, entry)), entry)
  /\ UNCHANGED <<options, username, password>>

\* the result stream reports an error
StreamError ==
  /\ Active
  /\ st.streamOpen
  /\ st.streamNotes < MaxStreamNotes
  /\ LET e == Err("stream", "EFAIL")
     IN st' = onError(Log([st EXCEPT !.streamNotes = @ + 1], Told("error", "stream", e)), e)
  /\ UNCHANGED <<options, username, password>>

\* the result stream ends
StreamEnd ==
  /\ Active
  /\ st.streamOpen
  /\ st.streamNotes < MaxStreamNotes
  /\ st' = onEnd(Log([st EXCEPT !.streamNotes = @ + 1], Told("end", "stream", NoErr)))
  /\ UNCHANGED <<options, username, password>>

\* the unbind reports
UnbindDone ==
  /\ Active
  /\ "unbind" \in st.inflight
  /\ \E err \in OpResults("unbind") :
       st' = unbindCb(Log([st EXCEPT !.inflight = @ \ {"unbind"}], Told("done", "unbind", err)), err)
  /\ UNCHANGED <<options, username, password>>

\* the verification bind reports
UserBindDone ==
  /\ Active
  /\ "userBind" \in st.inflight
  /\ \E err \in OpResults("userBind") :
       st' = userBindCb(Log([st EXCEPT !.inflight = @ \ {"userBind"}], Told("done", "userBind", err)), err)
  /\ UNCHANGED <<options, username, password>>

Next ==
  \/ Validate
  \/ ConnError
  \/ BindDone
  \/ SearchDone
  \/ StreamEntry
  \/ StreamError
  \/ StreamEnd
  \/ UnbindDone
  \/ UserBindDone

Spec == Init /\ [][Next]_vars

\* ---------------------------------------------- reading the trace of a run
Idx == 1..Len(st.trace)
At(i, ev, op) == st.trace[i].ev = ev /\ st.trace[i].op = op
Ok(i, op) == At(i, "done", op) /\ st.trace[i].err = NoErr
Failed(i, op) == At(i, "done", op) /\ st.trace[i].err # NoErr
IssuedOp(op) == \E i \in Idx : At(i, "issue", op)

\* a connection error event that the listener does not suppress
Fatal(e) == ~(e.errno = "ECONNRESET" /\ options.reconnect)
FatalConnAt(i) == At(i, "connError", "client") /\ Fatal(st.trace[i].err)
NoFatalConnError == \A i \in Idx : ~FatalConnAt(i)

\* the outcomes a caller can be handed
NotAuthenticated == [err |-> NoErr, profile |-> Null]
ErrorOutcome(e) == [err |-> e, profile |-> Null]

\* the notifications of the result stream, and its entries, in order
StreamNoteAt(i) == At(i, "end", "stream") \/ At(i, "error", "stream")
FirstStreamNote(i) == StreamNoteAt(i) /\ \A j \in 1..(i - 1) : ~StreamNoteAt(j)
EntryAt(i) == At(i, "searchEntry", "stream")
FirstEntryAt(i) == EntryAt(i) /\ \A j \in 1..(i - 1) : ~EntryAt(j)

\* ------------------------------------------------------------------ claims

\* C1: one validate call invokes the caller's callback at most once, under
\* every interleaving of connection 'error' events and step reports; once an
\* outcome was delivered no later completion attempt delivers anything.
C1_CallbackAtMostOnce ==
  [][Len(st'.calls) <= 1 /\ (Len(st.calls) = 1 => st'.calls = st.calls)]_vars

\* C1 witness: a fatal connection error event and a failed step both fired
\* for the attempt, and one outcome was delivered.
C1_Witness ==
  /\ Len(st.calls) = 1
  /\ st.task = "done"
  /\ st.destroyCalls >= 2
  /\ \E i \in Idx : FatalConnAt(i)
  /\ \E i \in Idx : \E op \in {"bind", "search", "unbind"} : Failed(i, op)

\* C2 (as claimed): a validate call with a missing, non-string or empty
\* username or password returns normally having invoked the callback once
\* with no error and a null profile, with no connection and no operation.
C2_MissingCredentialsNotAuthenticated ==
  (st.phase # "idle" /\ (Missing(username) \/ Missing(password))) =>
    /\ st.phase = "called"
    /\ st.calls = <<NotAuthenticated>>
    /\ ~st.clientBound
    /\ \A i \in Idx : st.trace[i].ev # "issue"

\* the chain of reports behind an authenticated profile p, in order: service
\* bind succeeded, the stream delivered its first entry and ended, the unbind
\* succeeded, the bind as that entry's dn with the caller's password was
\* issued and succeeded
AuthChain(p) ==
  \E i1 \in Idx : \E i2 \in (i1 + 1)..Len(st.trace) : \E i3 \in (i2 + 1)..Len(st.trace) :
    /\ Ok(i1, "bind")
    /\ FirstEntryAt(i2)
    /\ At(i3, "end", "stream")
    /\ \E i4 \in (i3 + 1)..Len(st.trace) : \E i5 \in (i4 + 1)..Len(st.trace) : \E i6 \in (i5 + 1)..Len(st.trace) :
         /\ Ok(i4, "unbind")
         /\ At(i5, "issue", "userBind")
         /\ st.trace[i5].arg = Val("string", <<dnToString(st.trace[i2].entry.dn)>>)
         /\ st.trace[i5].cred = password.val
         /\ Ok(i6, "userBind")

\* C3: the callback has been invoked with a non-null profile only if, in
\* that attempt and in this order, the service bind succeeded, the search
\* ended with at least one entry, the unbind completed and the bind with the
\* matched entry's dn and the caller's password succeeded.
C3_ProfileOnlyAfterVerification ==
  \A k \in 1..Len(st.calls) : st.calls[k].profile # Null => AuthChain(st.calls[k].profile)

\* C3 witness: a profile was delivered.
C3_Witness == \E k \in 1..Len(st.calls) : st.calls[k].profile # Null

\* C4: with no connection error event, a successful service bind, a search
\* that ended with one or more entries, a successful unbind and a successful
\* bind as the matched dn, the caller gets (no error, profile), the profile
\* being the decoding of the first entry of the stream, with that entry's dn.
C4_AuthenticatedWithFirstEntry ==
  ( /\ \A i \in Idx : ~At(i, "connError", "client")
    /\ \E i \in Idx : Ok(i, "bind")
    /\ \E i \in Idx : EntryAt(i)
    /\ \E i \in Idx : At(i, "end", "stream")
    /\ \E i \in Idx : Ok(i, "unbind")
    /\ \E i \in Idx : Ok(i, "userBind") ) =>
    \E i \in Idx :
      /\ FirstEntryAt(i)
      /\ st.calls = <<[err |-> NoErr, profile |-> decodeSearchEntry(st.trace[i].entry)]>>
      /\ st.calls[1].profile["dn"] = Val("string", <<dnToString(st.trace[i].entry.dn)>>)

\* C4 witness: the stream delivered two different entries and the attempt
\* was authenticated without any connection error event.
C4_Witness ==
  /\ \A i \in Idx : ~At(i, "connError", "client")
  /\ \E i \in Idx : Ok(i, "userBind")
  /\ Len(st.entries) = 2
  /\ st.entries[1] # st.entries[2]
  /\ Len(st.calls) = 1
  /\ st.calls[1].profile # Null

\* the verification bind has reported a failure
UserBindFailed == \E i \in Idx : Failed(i, "userBind")

\* C5 (as claimed): whenever the verification bind was reached and reported
\* a failure, the outcome delivered to the caller is NotAuthenticated.
C5_UserBindFailureNotAuthenticated == UserBindFailed => st.calls = <<NotAuthenticated>>

\* C5 (amended): whenever the verification bind reported a failure, exactly
\* one outcome was delivered; it is NotAuthenticated unless a connection
\* error event that the listener does not suppress fired before that report,
\* and then it is the Error of the first such event. The bind's own error is
\* never delivered.
C5_UserBindFailureNeverAnError ==
  \A i \in Idx : Failed(i, "userBind") =>
    /\ Len(st.calls) = 1
    /\ st.calls[1].err.kind # "userBind"
    /\ IF \E j \in 1..(i - 1) : FatalConnAt(j)
       THEN \E j \in 1..(i - 1) :
              /\ FatalConnAt(j)
              /\ \A k \in 1..(j - 1) : ~FatalConnAt(k)
              /\ st.calls[1] = ErrorOutcome(st.trace[j].err)
       ELSE st.calls[1] = NotAuthenticated

\* C5 witness: the verification bind failed with no connection error event
\* before it, and the caller was handed NotAuthenticated.
C5_Witness ==
  /\ UserBindFailed
  /\ NoFatalConnError
  /\ st.calls = <<NotAuthenticated>>

\* the stream's first notification was 'end', with no entry before it
EndedEmpty == \E i \in Idx : At(i, "end", "stream") /\ FirstStreamNote(i) /\ \A j \in 1..(i - 1) : ~EntryAt(j)

\* C6 (as claimed, and granting it that no connection error event ended the
\* attempt): if the service bind succeeded and the result stream ended with
\* zero entries, the verification bind is never issued, and the outcome the
\* finished attempt delivered is NotAuthenticated with no error.
C6_EmptySearchNotAuthenticated ==
  (EndedEmpty /\ NoFatalConnError) =>
    /\ ~IssuedOp("userBind")
    /\ st.task = "done" => st.calls = <<NotAuthenticated>>

\* C7 (as claimed): a failed service bind gives Error with the bind's error
\* and no search, unbind or verification bind; an error reported by the
\* search call or by its result stream gives Error with that error and no
\* unbind or verification bind.
C7_StepFailureIsTheError ==
  /\ \A i \in Idx : Failed(i, "bind") =>
       /\ st.calls = <<ErrorOutcome(st.trace[i].err)>>
       /\ ~IssuedOp("search") /\ ~IssuedOp("unbind") /\ ~IssuedOp("userBind")
  /\ \A i \in Idx : (Failed(i, "search") \/ At(i, "error", "stream")) =>
       /\ st.calls = <<ErrorOutcome(st.trace[i].err)>>
       /\ ~IssuedOp("unbind") /\ ~IssuedOp("userBind")

\* the outcome after a step failure reported at i: one Error outcome, with
\* the step's error unless a connection error event that the listener does
\* not suppress fired before i, and then with the error of the first such
ErrorOfStepOrConnection(i) ==
  /\ Len(st.calls) = 1
  /\ IF \E j \in 1..(i - 1) : FatalConnAt(j)
     THEN \E j \in 1..(i - 1) :
            /\ FatalConnAt(j)
            /\ \A k \in 1..(j - 1) : ~FatalConnAt(k)
            /\ st.calls[1] = ErrorOutcome(st.trace[j].err)
     ELSE st.calls[1] = ErrorOutcome(st.trace[i].err)

\* C7 (amended): a failed service bind is followed by no search, unbind or
\* verification bind; an error that is the first report of the search (from
\* the search call, or the first notification of its stream) is followed by
\* no unbind or verification bind. In both cases the outcome is Error: with
\* that step's error, unless a connection error event that the listener does
\* not suppress had already completed the attempt, and then with its error.
C7_StepFailureEndsTheAttempt ==
  /\ \A i \in Idx : Failed(i, "bind") =>
       /\ ErrorOfStepOrConnection(i)
       /\ ~IssuedOp("search") /\ ~IssuedOp("unbind") /\ ~IssuedOp("userBind")
  /\ \A i \in Idx : (Failed(i, "search") \/ (At(i, "error", "stream") /\ FirstStreamNote(i))) =>
       /\ ErrorOfStepOrConnection(i)
       /\ ~IssuedOp("unbind") /\ ~IssuedOp("userBind")

\* C7 witness: the search's stream reported an error first, after a
\* successful service bind, and the caller was handed that error.
C7_Witness ==
  \E i \in Idx :
    /\ At(i, "error", "stream") /\ FirstStreamNote(i)
    /\ st.calls = <<ErrorOutcome(st.trace[i].err)>>
    /\ st.streamNotes = MaxStreamNotes

\* C8 (as claimed): an attempt that created a connection destroys it
\* exactly once: once with the terminal transition and never again.
C8_DestroyedExactlyOnce == st.clientBound => st.destroyCalls = Len(st.calls)

\* C9 (as claimed, and granting it that no connection error event ended the
\* attempt): a failure of the unbind is never the Error delivered; after it
\* the caller gets NotAuthenticated when no entry matched, and otherwise
\* the verification bind is issued.
C9_UnbindFailureHarmless ==
  (NoFatalConnError /\ \E i \in Idx : Failed(i, "unbind")) =>
    /\ \A k \in 1..Len(st.calls) : st.calls[k].err.kind # "unbind"
    /\ IF st.userProfile = Null \/ ~Truthy(st.userProfile["dn"])
       THEN st.calls = <<NotAuthenticated>>
       ELSE IssuedOp("userBind")

\* C10: a connection error event that is an ECONNRESET while reconnect is
\* enabled changes nothing (no callback, no destroy, the steps in flight and
\* the position of the series as they were); any other connection error
\* event destroys the connection and, arriving before an outcome was
\* delivered, hands the caller Error with that very error.
C10_ConnErrorSuppressedOrFatal ==
  [][ LET n == Len(st.trace)
      IN (Len(st'.trace) > n /\ st'.trace[n + 1].ev = "connError") =>
           LET e == st'.trace[n + 1].err
           IN IF e.errno = "ECONNRESET" /\ options.reconnect
              THEN st' = [st EXCEPT !.trace = Append(@, Told("connError", "client", e)), !.connErrors = @ + 1]
              ELSE /\ st'.destroyCalls = st.destroyCalls + 1
                   /\ ~st'.notSent
                   /\ st.calls = <<>> => st'.calls = <<ErrorOutcome(e)>>
                   /\ st.calls # <<>> => st'.calls = st.calls ]_vars

\* C10 witness: an ECONNRESET was suppressed during the attempt, which went
\* on to authenticate the user.
C10_Witness ==
  /\ options.reconnect
  /\ \E i \in Idx : At(i, "connError", "client") /\ st.trace[i].err.errno = "ECONNRESET"
  /\ NoFatalConnError
  /\ Len(st.calls) = 1
  /\ st.calls[1].profile # Null

\* the directory operations in flight: those issued and not yet called back,
\* and the search whose result stream has not yet reported 'end' or 'error'
InFlightOps == st.inflight \cup (IF st.streamOpen /\ st.streamNotes = 0 THEN {"stream"} ELSE {})

\* the operations issued so far, in the order of their issue
IssueOrder == <<"bind", "search", "unbind", "userBind">>
IssuedOps ==
  LET sel == SelectSeq(st.trace, LAMBDA e : e.ev = "issue")
  IN [k \in 1..Len(sel) |-> sel[k].op]

\* the report that ends the operation op was received before index i
ReportedBefore(op, i) ==
  \E j \in 1..(i - 1) :
    CASE op = "search" -> Failed(j, "search") \/ StreamNoteAt(j)
      [] OTHER -> At(j, "done", op)

\* C11: the operations of an attempt are issued in the order service bind,
\* search, unbind, verification bind, each only after the one before it has
\* reported, and at most one operation is in flight in every state.
C11_OperationsStrictlySequential ==
  LET ops == IssuedOps
  IN /\ Cardinality(InFlightOps) <= 1
     /\ Len(ops) <= Len(IssueOrder)
     /\ ops = SubSeq(IssueOrder, 1, Len(ops))
     /\ \A i \in Idx : st.trace[i].ev = "issue" =>
          \A k \in 2..Len(IssueOrder) :
            st.trace[i].op = IssueOrder[k] => ReportedBefore(IssueOrder[k - 1], i)

\* C11 witness: all four operations were issued and the attempt has ended.
C11_Witness ==
  /\ IssuedOps = IssueOrder
  /\ st.task = "done"
  /\ InFlightOps = {}

\* nothing of the attempt is pending: validate was called and every issued
\* operation, and the search's result stream, has reported
Quiescent == st.phase # "idle" /\ InFlightOps = {}

\* C12 (as claimed): every issued operation having reported, the validate
\* call has invoked its callback, exactly once.
C12_CallbackInvokedOnceWhenAllReported == Quiescent => Len(st.calls) = 1

\* ------------------------------------------- two attempts on one instance
\* Two validate calls on the same LdapValidator, their events interleaved.
\* Under ConcurrentSpec st holds the closure of each call (att), the client
\* object each call holds (client, 0 before _createClient) and the number of
\* client objects made so far (created). The closures keep no trace here.
Attempts == {1, 2}

\* _createClient handing out one cached client object
_createClientCached(created) == 1

\* LdapValidator.prototype._createClient: ldap.createClient makes a new
\* client object on every call
_createClient(created) == created + 1

Forget(s) == [s EXCEPT !.trace = <<>>]
ActiveAttempt(s) == s.phase = "called" /\ s.clientBound

\* the closure of an attempt before its validate call
IdleAttempt ==
  [phase |-> "idle", clientBound |-> FALSE, destroyCalls |-> 0,
   notSent |-> TRUE, userProfile |-> Null, isAuthenticated |-> FALSE,
   entries |-> <<>>, notCbSent |-> TRUE, task |-> "none",
   inflight |-> {}, streamOpen |-> FALSE, streamNotes |-> 0, connErrors |-> 0,
   calls |-> <<>>, trace |-> <<>>]

\* the entry the directory returns to the search of an attempt: at most one
\* per attempt here, the streams of several entries are those of Spec
ConcurrentEntries == {EntryAlice}

\* what the reports of its own operations and of its own result stream can
\* make of the closure s of a running attempt
ReportSteps(s) ==
  IF ~ActiveAttempt(s) THEN {}
  ELSE UNION {
    IF "bind" \in s.inflight
      THEN {bindCb(Log([s EXCEPT !.inflight = @ \ {"bind"}], Told("done", "bind", err)), err) : err \in OpResults("bind")}
      ELSE {},
    IF "search" \in s.inflight
      THEN {searchCb(Log([s EXCEPT !.inflight = @ \ {"search"}], Told("done", "search", err)), err) : err \in OpResults("search")}
      ELSE {},
    IF s.streamOpen /\ s.streamNotes = 0 /\ s.entries = <<>>
      THEN {onSearchEntry(Log(s, Ev("searchEntry", "stream", NoVal, "", NoErr, entry)), entry) : entry \in ConcurrentEntries}
      ELSE {},
    IF s.streamOpen /\ s.streamNotes < MaxStreamNotes
      THEN {onError(Log([s EXCEPT !.streamNotes = @ + 1], Told("error", "stream", Err("stream", "EFAIL"))), Err("stream", "EFAIL")),
            onEnd(Log([s EXCEPT !.streamNotes = @ + 1], Told("end", "stream", NoErr)))}
      ELSE {},
    IF "unbind" \in s.inflight
      THEN {unbindCb(Log([s EXCEPT !.inflight = @ \ {"unbind"}], Told("done", "unbind", err)), err) : err \in OpResults("unbind")}
      ELSE {},
    IF "userBind" \in s.inflight
      THEN {userBindCb(Log([s EXCEPT !.inflight = @ \ {"userBind"}], Told("done", "userBind", err)), err) : err \in OpResults("userBind")}
      ELSE {} }

\* what an 'error' event e of its client makes of the closure s
ConnErrorStep(s, e) == onClientError(Log([s EXCEPT !.connErrors = @ + 1], Told("connError", "client", e)), e)

ConcurrentInit ==
  /\ options \in Options
  /\ username \in {Str("alice"), Str("")}
  /\ password = Str("secret")
  /\ st = [att |-> [a \in Attempts |-> IdleAttempt], client |-> [a \in Attempts |-> 0], created |-> 0]

\* a caller calls validate: the a-th call of the two
ConcurrentValidate ==
  /\ \E a \in Attempts :
       /\ st.att[a].phase = "idle"
       /\ LET s2 == Forget(validateCall(Log(st.att[a], Told("call", "validate", NoErr))))
          IN IF s2.clientBound
             THEN st' = [st EXCEPT !.att[a] = s2, !.client[a] = _createClient(st.created), !.created = @ + 1]
             ELSE st' = [st EXCEPT !.att[a] = s2]
  /\ UNCHANGED <<options, username, password>>

\* a client object emits 'error': every listener registered on it runs
ConcurrentConnError ==
  /\ \E c \in 1..st.created : \E e \in ConnErrors :
       LET listeners == {a \in Attempts : st.client[a] = c /\ ActiveAttempt(st.att[a])}
       IN /\ listeners # {}
          /\ \A a \in listeners : st.att[a].connErrors < MaxConnErrors
          /\ st' = [st EXCEPT !.att = [a \in Attempts |-> IF a \in listeners THEN Forget(ConnErrorStep(st.att[a], e)) ELSE st.att[a]]]
  /\ UNCHANGED <<options, username, password>>

\* an operation of one attempt, or its result stream, reports
ConcurrentReport ==
  /\ \E a \in Attempts : \E s2 \in ReportSteps(st.att[a]) : st' = [st EXCEPT !.att[a] = Forget(s2)]
  /\ UNCHANGED <<options, username, password>>

ConcurrentNext ==
  \/ ConcurrentValidate
  \/ ConcurrentConnError
  \/ ConcurrentReport

ConcurrentSpec == ConcurrentInit /\ [][ConcurrentNext]_vars

\* what one event makes of the closure s of an attempt that runs alone: its
\* validate call, a report of its operations or stream, an 'error' event
AloneSteps(s) ==
  UNION {
    IF s.phase = "idle" THEN {Forget(validateCall(Log(s, Told("call", "validate", NoErr))))} ELSE {},
    {Forget(s2) : s2 \in ReportSteps(s)},
    IF ActiveAttempt(s) /\ s.connErrors < MaxConnErrors THEN {Forget(ConnErrorStep(s, e)) : e \in ConnErrors} ELSE {} }

\* C13: of two validate calls on one instance, their events interleaved,
\* each holds a client object of its own, every event changes the closure
\* (latch, profile, flag, delivered outcome, destroy count) of at most one
\* of them, and what it makes of that closure is what the same event makes
\* of it when the attempt runs alone.
C13_AttemptsIndependent ==
  [][ /\ \A a, b \in Attempts :
           (a # b /\ st'.client[a] # 0 /\ st'.client[b] # 0) => st'.client[a] # st'.client[b]
      /\ Cardinality({a \in Attempts : st'.att[a] # st.att[a]}) <= 1
      /\ \A a \in Attempts : st'.att[a] # st.att[a] => st'.att[a] \in AloneSteps(st.att[a]) ]_vars

\* C13 witness: both attempts have ended, the first authenticated and the
\* second failed by an 'error' event of its own client, which destroyed
\* that client only.
C13_Witness ==
  /\ st.client[1] # st.client[2]
  /\ Len(st.att[1].calls) = 1 /\ st.att[1].calls[1].profile # Null
  /\ st.att[1].destroyCalls = 1
  /\ Len(st.att[2].calls) = 1 /\ st.att[2].calls[1].err.kind = "conn"
  /\ st.att[1].task = "done" /\ st.att[2].task = "done"

\* ----------------------------------------------- decodeSearchEntry alone
\* attributes of one raw entry, values of one attribute, controls of one entry
MaxAttrs == 2
MaxVals == 2
MaxControls == 2

\* byte values on both sides of the padding test data[i] >= 16
ByteSamples == {0, 9, 15, 16, 171, 255}

\* 16-byte buffers: the bytes 01..10 hex with one byte replaced by a sample
GuidBytes == {[i \in 1..16 |-> IF i = k THEN b ELSE i] : k \in 1..16, b \in ByteSamples}

\* the first n values of an attribute: vals as strings, buffers as bytes
ValueList(type, n) == Attr(type, [k \in 1..n |-> "v" \o ToString(k)], [k \in 1..n |-> <<48 + k>>])

\* the attributes a raw entry may carry
AttrPool ==
  {ValueList(type, n) : type \in {"cn", "thumbnailPhoto"}, n \in 0..MaxVals}
    \cup {Attr("objectGUID", <<>>, <<>>)}
    \cup {Attr("objectGUID", <<"g">>, <<g>>) : g \in GuidBytes}

\* well-formed raw entries: attributes of distinct types, none named dn or
\* controls, and the response controls with their json projection
RawEntries ==
  {[dn |-> dn, attributes |-> as, controls |-> [k \in 1..c |-> [json |-> "ctl" \o ToString(k)]]] :
     dn \in {<<>>, <<"CN=Alice", "DC=corp">>},
     as \in UNION {{s \in [1..n -> AttrPool] : \A i, j \in 1..n : i # j => s[i].type # s[j].type} : n \in 0..MaxAttrs},
     c \in 0..MaxControls}

DecodeInit ==
  /\ options = Null
  /\ username = Undefined
  /\ password = Undefined
  /\ \E entry \in RawEntries : st = [phase |-> "raw", entry |-> entry, out |-> Null]

\* decodeSearchEntry(entry) is called
Decode ==
  /\ st.phase = "raw"
  /\ st' = [st EXCEPT !.phase = "decoded", !.out = decodeSearchEntry(st.entry)]
  /\ UNCHANGED <<options, username, password>>

DecodeNext == Decode

DecodeSpec == DecodeInit /\ [][DecodeNext]_vars

Decoded == st.phase = "decoded"
Empty == Val("empty", <<>>)

\* C14: a decode of a well-formed entry does not throw, its output has dn
\* and a key for every attribute type of the entry, and an attribute with an
\* empty value list (objectGUID and thumbnailPhoto included) is the empty
\* array.
C14_DecodeTotalAndKeepsKeys ==
  Decoded =>
    /\ st.out # Thrown
    /\ "dn" \in DOMAIN st.out
    /\ \A k \in 1..Len(st.entry.attributes) :
         LET a == st.entry.attributes[k]
         IN /\ a.type \in DOMAIN st.out
            /\ (a.vals = <<>> /\ a.buffers = <<>>) => st.out[a.type] = Empty

\* C15: an attribute that is neither thumbnailPhoto nor objectGUID decodes
\* to the empty array for no value, to the value itself for one value, to
\* the array of the values in order for two or more; the controls array has
\* the json of the response controls in their order.
C15_CollapseByLength ==
  Decoded =>
    /\ \A k \in 1..Len(st.entry.attributes) :
         LET a == st.entry.attributes[k]
         IN a.type \notin {"thumbnailPhoto", "objectGUID"} =>
              /\ st.out # Thrown
              /\ st.out[a.type] = IF Len(a.vals) = 0 THEN Empty
                                  ELSE IF Len(a.vals) = 1 THEN Val("string", <<a.vals[1]>>)
                                  ELSE Val("strings", a.vals)
    /\ st.entry.controls # <<>> =>
         /\ st.out # Thrown
         /\ st.out["controls"] = Val("json", [k \in 1..Len(st.entry.controls) |-> st.entry.controls[k].json])

\* two lowercase hex digits of a byte
Hex2(b) == HexDigits[(b \div 16) + 1] \o HexDigits[(b % 16) + 1]

\* b3 b2 b1 b0 - b5 b4 - b7 b6 - b8 b9 - b10 .. b15 of the bytes b[0..15]
ExpectedGuid(b) ==
  Hex2(b[4]) \o Hex2(b[3]) \o Hex2(b[2]) \o Hex2(b[1]) \o "-" \o Hex2(b[6]) \o Hex2(b[5]) \o "-"
    \o Hex2(b[8]) \o Hex2(b[7]) \o "-" \o Hex2(b[9]) \o Hex2(b[10]) \o "-"
    \o Hex2(b[11]) \o Hex2(b[12]) \o Hex2(b[13]) \o Hex2(b[14]) \o Hex2(b[15]) \o Hex2(b[16])

FixtureBytes == [i \in 1..16 |-> i]

\* C16: an objectGUID attribute whose first buffer is 16 bytes decodes to
\* the scalar string of 36 characters b3 b2 b1 b0 - b5 b4 - b7 b6 - b8 b9 -
\* b10 .. b15, two lowercase hex digits a byte; the bytes 01..10 hex give
\* "04030201-0605-0807-090a-0b0c0d0e0f10".
C16_GuidBytesReordered ==
  Decoded =>
    \A k \in 1..Len(st.entry.attributes) :
      LET a == st.entry.attributes[k]
      IN (a.type = "objectGUID" /\ a.buffers # <<>>) =>
           /\ st.out # Thrown
           /\ st.out["objectGUID"] = Val("string", <<ExpectedGuid(a.buffers[1])>>)
           /\ Len(st.out["objectGUID"].v[1]) = 36
           /\ formatGuid(a.buffers[1]) = st.out["objectGUID"].v[1]
           /\ a.buffers[1] = FixtureBytes => st.out["objectGUID"].v[1] = "04030201-0605-0807-090a-0b0c0d0e0f10"

\* C16 witness: an entry with the fixture bytes and one with a byte below 16
\* replaced by one above have been decoded to their GUID strings.
C16_Witness ==
  /\ Decoded /\ st.out # Thrown
  /\ \E k \in 1..Len(st.entry.attributes) :
       /\ st.entry.attributes[k].type = "objectGUID"
       /\ st.entry.attributes[k].buffers = <<FixtureBytes>>
  /\ st.out["objectGUID"] = Val("string", <<"04030201-0605-0807-090a-0b0c0d0e0f10">>)

\* ------------------------------------------------------------- strategy.js
\* times the application's verify function calls verified
MaxVerifyCallbacks == 2

\* a || b on the values of a request field
JsOr(a, b) == IF a.type = "undefined" \/ (a.type = "string" /\ Len(a.val) = 0) THEN b ELSE a

\* i[k] of a decoded profile: undefined for a key it does not have
Get(i, k) == IF k \in DOMAIN i THEN i[k] ELSE NoVal

\* a || b on the values of a profile
ValOr(a, b) == IF a.t # "undefined" /\ Truthy(a) THEN a ELSE b

\* Strategy.prototype.mapProfile
mapProfile(i) ==
  IF i = Null THEN i
  ELSE [id |-> ValOr(Get(i, "objectGUID"), Get(i, "uid")),
        displayName |-> Get(i, "displayName"),
        name |-> [familyName |-> ValOr(Get(i, "sn"), Get(i, "surName")),
                  givenName |-> ValOr(Get(i, "gn"), Get(i, "givenName"))],
        emails |-> IF Get(i, "mail").t # "undefined" /\ Truthy(Get(i, "mail")) THEN Val("emails", <<Get(i, "mail")>>) ELSE NoVal,
        _json |-> i]

\* the primitives of the framework: self.error, self.fail, self.success
Primitive(kind, err, user, info) == [kind |-> kind, err |-> err, user |-> user, info |-> info]
error(s, err) == [s EXCEPT !.primitives = Append(@, Primitive("error", err, Undefined, ""))]
fail(s, info) == [s EXCEPT !.primitives = Append(@, Primitive("fail", NoErr, Undefined, info))]
success(s, user, info) == [s EXCEPT !.primitives = Append(@, Primitive("success", NoErr, user, info))]

\* function verified (err, user, info)
verified(s, err, user, info) ==
  IF err # NoErr THEN error(s, err)
  ELSE IF JsOr(user, Undefined) = Undefined THEN fail(s, info)
  ELSE success(s, user, info)

\* a callback of validate that hands every outcome to verify
onValidatedIgnoreErr(s, err, userProfile) ==
  LET p == IF userProfile # Null THEN mapProfile(userProfile) ELSE Null
  IN [s EXCEPT !.phase = "verifying",
               !.verifyArgs = Append(@, IF options.passReqToCallback THEN <<s.req, p>> ELSE <<p>>)]

\* the callback authenticate passes to validate: function (err, userProfile)
onValidated(s, err, userProfile) ==
  IF err # NoErr THEN [error(s, err) EXCEPT !.phase = "done"]
  ELSE LET p == IF userProfile # Null THEN mapProfile(userProfile) ELSE Null
       IN [s EXCEPT !.phase = "verifying",
                    !.verifyArgs = Append(@, IF options.passReqToCallback THEN <<s.req, p>> ELSE <<p>>)]

\* Strategy.prototype.authenticate, to its return: validate is called with
\* the credentials of the request, and throws when one is missing
authenticate(s, userName, pw) ==
  IF Missing(userName) \/ Missing(pw) THEN [s EXCEPT !.phase = "threw"]
  ELSE [s EXCEPT !.phase = "validating"]

\* the options of the Strategy constructor that authenticate reads
StrategyOptions == {[passReqToCallback |-> p, usernameField |-> "username", passwordField |-> "password"] : p \in BOOLEAN}

\* requests: the credentials in the body, in the query, in both or in neither
Requests ==
  {[body |-> [username |-> bu, password |-> bp], query |-> [username |-> qu, password |-> qp]] :
     bu \in {Undefined, Str("alice")}, bp \in {Undefined, Str("secret")},
     qu \in {Undefined, Str("bob")}, qp \in {Undefined, Str("")}}

\* what validate delivers to its callback: an error with a null profile, no
\* error with a null profile, no error with the decoded profile
ValidateOutcomes ==
  {[err |-> e, profile |-> Null] : e \in {NoErr, Err("bind", "EFAIL"), Err("conn", "ETIMEDOUT")}}
    \cup {[err |-> NoErr, profile |-> decodeSearchEntry(e)] : e \in {EntryAlice, EntryBob}}

\* what the application's verify function may report
VerifyErrs == {NoErr, Err("verify", "EAPP")}
VerifyUsers == {Undefined, Str("user1")}
VerifyInfos == {"", "info"}

NoOutcome == [err |-> NoErr, profile |-> Null]

AuthInit ==
  /\ options \in StrategyOptions
  /\ username = Undefined
  /\ password = Undefined
  /\ \E req \in Requests :
       st = [phase |-> "idle", req |-> req, outcome |-> NoOutcome, verifyArgs |-> <<>>,
             verifiedCalls |-> 0, primitives |-> <<>>]

\* the framework calls authenticate(req)
Authenticate ==
  /\ st.phase = "idle"
  /\ username' = JsOr(st.req.body[options.usernameField], st.req.query[options.usernameField])
  /\ password' = JsOr(st.req.body[options.passwordField], st.req.query[options.passwordField])
  /\ st' = authenticate(st, username', password')
  /\ UNCHANGED options

\* validate delivers its outcome
ValidateCallsBack ==
  /\ st.phase = "validating"
  /\ \E out \in ValidateOutcomes : st' = onValidated([st EXCEPT !.outcome = out], out.err, out.profile)
  /\ UNCHANGED <<options, username, password>>

\* the application's verify function calls verified
VerifyCallsBack ==
  /\ st.phase = "verifying"
  /\ st.verifiedCalls < MaxVerifyCallbacks
  /\ \E err \in VerifyErrs, user \in VerifyUsers, info \in VerifyInfos :
       st' = verified([st EXCEPT !.verifiedCalls = @ + 1], err, user, info)
  /\ UNCHANGED <<options, username, password>>

AuthNext ==
  \/ Authenticate
  \/ ValidateCallsBack
  \/ VerifyCallsBack

AuthSpec == AuthInit /\ [][AuthNext]_vars

Delivered == st.phase \in {"verifying", "done"}

\* C17: an Error outcome of validate is answered by the error primitive
\* with that error, once, and verify is not called; a non-error outcome is
\* handed to verify once, the error primitive then carries only an error
\* that verify reported, and when verify has called back once exactly one
\* of error, fail, success has been invoked.
C17_ErrorAndNegativeOutcomesApart ==
  Delivered =>
    /\ st.outcome.err # NoErr =>
         /\ st.primitives = <<Primitive("error", st.outcome.err, Undefined, "")>>
         /\ st.verifyArgs = <<>>
    /\ st.outcome.err = NoErr =>
         /\ Len(st.verifyArgs) = 1
         /\ \A k \in 1..Len(st.primitives) :
              st.primitives[k].kind = "error" => st.primitives[k].err \in VerifyErrs \ {NoErr}
         /\ st.verifiedCalls = 0 => st.primitives = <<>>
         /\ st.verifiedCalls = 1 => Len(st.primitives) = 1

\* C17 witness: validate delivered NotAuthenticated, verify was called with
\* the null profile and reported no user, and fail was invoked, alone.
C17_Witness ==
  /\ Delivered /\ st.outcome = NoOutcome
  /\ st.verifiedCalls = 1
  /\ Len(st.primitives) = 1 /\ st.primitives[1].kind = "fail"

\* ------------------------------------------------ claims C18 to C20 (Spec)

\* C18: after a connection error event that was not suppressed has
\* completed the attempt and destroyed the connection, no operation (bind,
\* search, unbind) is issued any more, and the delivered outcome stays.
C18_NoOperationAfterConnectionDestroyed ==
  \A j \in Idx : FatalConnAt(j) =>
    /\ \A i \in Idx : i > j => st.trace[i].ev # "issue"
    /\ Len(st.calls) = 1

\* the search step's terminal notifications: the error of the search call,
\* 'error' and 'end' of its result stream
SearchNoteAt(j) == Failed(j, "search") \/ StreamNoteAt(j)

\* the notifications of the search step after which the step sequence went
\* on: to the next operation, or to its end, which destroys the connection
SearchReports ==
  {j \in Idx : SearchNoteAt(j) /\ j < Len(st.trace) /\ st.trace[j + 1].ev \in {"issue", "destroy"}}

\* the event e is a terminal notification of the search step
SearchNote(e) == (e.ev = "done" /\ e.op = "search" /\ e.err # NoErr) \/ (e.op = "stream" /\ e.ev \in {"end", "error"})

\* C19: a terminal notification of the search step (search error, stream
\* 'error', stream 'end') that arrives after an earlier one does nothing: no
\* operation is issued, the step sequence neither goes on nor ends, nothing
\* is destroyed or delivered (a late 'end' still decodes the first entry
\* into userProfile). So the step reports at most once.
C19_SearchReportsAtMostOnce ==
  [][ \A j \in (Len(st.trace) + 1)..Len(st'.trace) :
        (SearchNote(st'.trace[j]) /\ \E i \in Idx : SearchNoteAt(i)) =>
          /\ Len(st'.trace) = j
          /\ st'.task = st.task
          /\ st'.inflight = st.inflight
          /\ st'.destroyCalls = st.destroyCalls
          /\ st'.calls = st.calls ]_vars

\* C19 witness: the stream ended and then reported an error; the unbind was
\* issued after the 'end' and nothing followed the 'error'.
C19_Witness ==
  \E i, j \in Idx :
    /\ i < j /\ At(i, "end", "stream") /\ At(j, "error", "stream")
    /\ SearchReports = {i}
    /\ j < Len(st.trace)

\* C20: no call of the caller's callback carries an error and a profile.
C20_ErrorNeverWithProfile ==
  \A k \in 1..Len(st.calls) : st.calls[k].err # NoErr => st.calls[k].profile = Null

\* C20 witness: the search had matched a profile when a connection error
\* event completed the attempt; the error was delivered with a null profile.
C20_Witness ==
  /\ st.userProfile # Null
  /\ Len(st.calls) = 1
  /\ st.calls[1].err.kind = "conn"
  /\ st.calls[1].profile = Null

====
